---------------------------- MODULE Spec2Model ----------------------------
(***************************************************************************)
(* A model of climatedelta: the service classes under src/src/services     *)
(* (ZipLookupService, NOAAStationService, WeatherGovService), the helpers  *)
(* of src/src/utils/geo.py and the two presenters (src/src/main.py, the    *)
(* command line, and src/app.py, the web page), step by step and as whole  *)
(* runs.                                                                   *)
(*                                                                         *)
(* Every HTTP collaborator is the environment: what it answers is drawn in *)
(* Init from bounded sets and then read by the actions, which are the      *)
(* steps of the code between two requests.  `requests` is the log of the   *)
(* HTTP requests the station service has issued, in order.                 *)
(*                                                                         *)
(* Temperatures are exact rationals [n, d] (Python floats in the source);  *)
(* the input sets hold values on which float and exact arithmetic order    *)
(* and compare alike.                                                      *)
(***************************************************************************)
EXTENDS Integers, Sequences, FiniteSets, TLC

VARIABLES
    \* ---- NOAAStationService.get_closest_station_with_normals ----
    origin,      \* <<lat, lon>> passed by the caller
    dirResp,     \* what the station directory answers to the one query
    csvHost,     \* station code -> what reading the header of its CSV gives
    sfPc,        \* "start" | "scan" | "returned" | "raised"
    stations,    \* the local list `stations` (sorted in place)
    sfIdx,       \* position of the for loop in `stations`
    sfResult,    \* the returned (station_id, name, latitude, longitude)
    sfError,     \* the exception that left the call
    requests,    \* log of the HTTP requests issued, oldest first
    \* ---- the machine's clock ----
    now,         \* the instant, in UTC: [date |-> [y, m, d], hour |-> 0..23],
                 \* the same at every reading of the clock within one run
    tz,          \* the machine's local offset from UTC, in hours
    \* ---- NOAAStationService.get_normals_for_today ----
    csvFile,     \* what reading the station's whole CSV gives
    nrPc,        \* "start" | "loaded" | "returned" | "raised"
    df,          \* the local data frame `df`: a sequence of rows
    nrResult,    \* the returned dict
    nrError,     \* the exception that left the call
    \* ---- WeatherGovService.get_current_conditions ----
    today,       \* the presenter's `today`, the argument of the call: [y, m, d]
    wxFault,     \* which of the four weather.gov requests goes wrong, if any
    wxObs,       \* the latest observation the provider holds
    wxPeriods,   \* the forecast periods the provider holds
    cfPc,        \* "start" | "point" | "station" | "observed" | "returned" | "raised"
    cfLocals,    \* the locals forecast_periods_today, temps, f_high, f_low once set
    cfResult,    \* the returned dict
    cfError,     \* the exception that left the call
    \* ---- the presenters' last steps (main.py 82-105, app.py 84-104) ----
    highlow,     \* current["highlow"]: <<high, low>>
    normals,     \* the dict of get_normals_for_today
    dcPc,        \* "start" | "cli" | "web"
    cliOut,      \* what main() prints in steps 6 and 7
    webOut,      \* what index() hands to the result template
    \* ---- ZipLookupService and the presenters' first steps ----
    presenter,   \* "cli" (main.py) | "web" (app.py)
    locInput,    \* the text typed, a string as the sequence of its characters
    geoCity,     \* what the geocoder answers to a city/state request
    geoZip,      \* what the geocoder answers to a ZIP request
    lrPc,        \* "start" | "city" | "lookup" | "located" | "failed"
    zip_code,    \* the local zip_code once set
    latlon,      \* the local (lat, lon) once set
    geoRequests, \* log of the requests sent to the geocoder, oldest first
    \* ---- what reaches the user ----
    stdout,      \* the lines printed so far, by kind, oldest first
    failure,     \* how the run ended when it ended on an error
    \* ---- one run of a presenter: main() of main.py, index() of app.py ----
    runPc,       \* "location" | "station" | "normals" | "call conditions" |
                 \* "conditions" | "delta" | "rendered" | "failed"
    calls        \* the service methods called and the delta step, oldest first

sfVars == <<origin, dirResp, csvHost, sfPc, stations, sfIdx, sfResult, sfError, requests>>

clockVars == <<now, tz>>

nrVars == <<csvFile, nrPc, df, nrResult, nrError>>

cfVars == <<today, wxFault, wxObs, wxPeriods, cfPc, cfLocals, cfResult, cfError>>

dcVars == <<highlow, normals, dcPc, cliOut, webOut>>

lrVars == <<presenter, locInput, geoCity, geoZip, lrPc, zip_code, latlon, geoRequests>>

uiVars == <<stdout, failure>>

runVars == <<runPc, calls>>

vars == <<sfVars, clockVars, nrVars, cfVars, dcVars, lrVars, uiVars, runVars>>

-----------------------------------------------------------------------------
(* Bounds of the model *)

\* most stations in one directory answer (the code asks for limit=100)
MaxStations == 3

\* most rows in one station's CSV (the published files hold 365)
MaxRows == 2

\* most forecast periods in one answer (the provider sends 14)
MaxPeriods == 2

-----------------------------------------------------------------------------
(* Optional values: Python's None *)

None == [has |-> FALSE]
Some(v) == [has |-> TRUE, val |-> v]

-----------------------------------------------------------------------------
(* src/src/utils/geo.py *)

Abs(x) == IF x < 0 THEN -x ELSE x

\* haversine() of geo.py on whole-degree points, as <<lat1, lat2, |dlon|, metres>>:
\* the value the function returns (km), times 1000 and rounded.  Equal entries
\* are equal as floats too (sin^2 is even), so ties in the table are ties in
\* the code.
HaversineTable ==
    { <<39, 39, 0, 0>>,      <<39, 39, 1, 86414>>,  <<39, 39, 2, 172826>>,
      <<39, 40, 0, 111195>>, <<39, 40, 1, 140447>>, <<39, 40, 2, 204470>>,
      <<39, 41, 0, 222390>>, <<39, 41, 1, 238140>>, <<39, 41, 2, 280124>>,
      <<40, 39, 0, 111195>>, <<40, 39, 1, 140447>>, <<40, 39, 2, 204470>>,
      <<40, 40, 0, 0>>,      <<40, 40, 1, 85180>>,  <<40, 40, 2, 170357>>,
      <<40, 41, 0, 111195>>, <<40, 41, 1, 139689>>, <<40, 41, 2, 202380>>,
      <<41, 39, 0, 222390>>, <<41, 39, 1, 238140>>, <<41, 39, 2, 280124>>,
      <<41, 40, 0, 111195>>, <<41, 40, 1, 139689>>, <<41, 40, 2, 202380>>,
      <<41, 41, 0, 0>>,      <<41, 41, 1, 83919>>,  <<41, 41, 2, 167836>> }

haversine(lat1, lon1, lat2, lon2) ==
    (CHOOSE e \in HaversineTable :
        e[1] = lat1 /\ e[2] = lat2 /\ e[3] = Abs(lon2 - lon1))[4]

-----------------------------------------------------------------------------
(* The environment of the station service *)

Origins == { <<40, -74>>, <<41, -74>> }

\* where a station of the directory may lie: the origin itself, two points at
\* one distance from <<40, -74>>, and two further ones
Coords == { <<40, -74>>, <<40, -75>>, <<40, -73>>, <<41, -74>>, <<39, -75>> }

\* reading the first row of a station's CSV: the read raises, or gives a frame
\* without the column, or gives a frame with it
ProbeOutcomes == {"fail", "nocol", "ok"}

\* the i-th station of the directory's answer; its id is "GHCND:<i>"
Station(i, c) ==
    [id |-> <<"GHCND", i>>, name |-> <<"STATION", i>>,
     latitude |-> c[1], longitude |-> c[2]]

StationLists(n) ==
    { [i \in 1..n |-> Station(i, cs[i])] : cs \in [1..n -> Coords] }

DirectoryAnswers ==
    { [status |-> 500, hasResults |-> FALSE, results |-> <<>>],
      [status |-> 200, hasResults |-> FALSE, results |-> <<>>] }
    \cup { [status |-> 200, hasResults |-> TRUE, results |-> l] :
             l \in UNION { StationLists(n) : n \in 0..MaxStations } }

-----------------------------------------------------------------------------
(* NOAAStationService.get_closest_station_with_normals *)

\* station_id.split(":")[1], for the ids the directory gives, "<namespace>:<code>"
\* (an id with no colon would raise at line 50, outside the try; the
\* directory's ids all carry one)
StationCode(station_id) == station_id[2]

Distance(lat, lon, s) == haversine(lat, lon, s.latitude, s.longitude)

\* Variant with a bug (used to test the claims, no part of the model): s goes
\* before the elements of equal key, an unstable sort.
InsertBeforeTies(sorted, s, lat, lon) ==
    LET k == Cardinality({ i \in 1..Len(sorted) :
                 Distance(lat, lon, sorted[i]) < Distance(lat, lon, s) })
    IN  SubSeq(sorted, 1, k) \o <<s>> \o SubSeq(sorted, k + 1, Len(sorted))

\* one step of list.sort(key=...): s goes after every element whose key is not
\* greater (the sort is stable)
InsertByDistance(sorted, s, lat, lon) ==
    LET k == Cardinality({ i \in 1..Len(sorted) :
                 Distance(lat, lon, sorted[i]) <= Distance(lat, lon, s) })
    IN  SubSeq(sorted, 1, k) \o <<s>> \o SubSeq(sorted, k + 1, Len(sorted))

\* Variant with a bug (used to test the claims, no part of the model): the
\* list is scanned in the order the directory gave it.
KeepDirectoryOrder(list, lat, lon) == list

RECURSIVE SortByDistance(_, _, _)
SortByDistance(list, lat, lon) ==
    IF list = <<>> THEN <<>>
    ELSE InsertByDistance(SortByDistance(SubSeq(list, 1, Len(list) - 1), lat, lon),
                          list[Len(list)], lat, lon)

\* resp.json().get("results", [])
ResultsOf(resp) == IF resp.hasResults THEN resp.results ELSE <<>>

DirectoryRequest == [kind |-> "directory", code |-> 0]
ProbeRequest(code) == [kind |-> "probe", code |-> code]

\* pd.read_csv(csv_url, nrows=1) followed by the column test, inside the try:
\* TRUE when the function returns this station
ProbeAccepts(outcome) == outcome = "ok"

\* Variant with a bug (used to test the claims, no part of the model): the
\* empty test of lines 38-39 is left out.
QueryDirectoryNoEmptyTest ==
    /\ sfPc = "start"
    /\ requests' = Append(requests, DirectoryRequest)
    /\ IF dirResp.status # 200
         THEN /\ sfPc' = "raised"
              /\ sfError' = "UpstreamUnavailable"
              /\ UNCHANGED stations
         ELSE /\ sfPc' = "scan"
              /\ sfError' = "none"
              /\ stations' = SortByDistance(ResultsOf(dirResp), origin[1], origin[2])
    /\ UNCHANGED <<origin, dirResp, csvHost, sfIdx, sfResult>>

\* lines 35-44: the directory query, the empty test and the sort
QueryDirectory ==
    /\ sfPc = "start"
    /\ requests' = Append(requests, DirectoryRequest)
    /\ IF dirResp.status # 200
         THEN /\ sfPc' = "raised"
              /\ sfError' = "UpstreamUnavailable"
              /\ UNCHANGED stations
         ELSE IF ResultsOf(dirResp) = <<>>
         THEN /\ sfPc' = "raised"
              /\ sfError' = "NoStationsFound"
              /\ stations' = ResultsOf(dirResp)
         ELSE /\ sfPc' = "scan"
              /\ sfError' = "none"
              /\ stations' = SortByDistance(ResultsOf(dirResp), origin[1], origin[2])
    /\ UNCHANGED <<origin, dirResp, csvHost, sfIdx, sfResult>>

\* Variant with a bug (used to test the claims, no part of the model): the
\* station found is kept and the loop goes on to the next candidate.
ProbeStationKeepsGoing ==
    /\ sfPc = "scan"
    /\ sfIdx <= Len(stations)
    /\ LET s == stations[sfIdx]
           code == StationCode(s.id)
       IN  /\ requests' = Append(requests, ProbeRequest(code))
           /\ sfResult' = IF ProbeAccepts(csvHost[code])
                            THEN Some(<<s.id, s.name, s.latitude, s.longitude>>)
                            ELSE sfResult
           /\ sfIdx' = sfIdx + 1
           /\ UNCHANGED sfPc
    /\ UNCHANGED <<origin, dirResp, csvHost, stations, sfError>>

\* Variant with a bug (used to test the claims, no part of the model): no
\* try/except around the read, so a failed read leaves the call.
ProbeStationUnguarded ==
    /\ sfPc = "scan"
    /\ sfIdx <= Len(stations)
    /\ LET s == stations[sfIdx]
           code == StationCode(s.id)
       IN  /\ requests' = Append(requests, ProbeRequest(code))
           /\ IF csvHost[code] = "fail"
                THEN /\ sfPc' = "raised"
                     /\ sfError' = "UpstreamUnavailable"
                     /\ UNCHANGED <<sfIdx, sfResult>>
                ELSE IF ProbeAccepts(csvHost[code])
                THEN /\ sfResult' = Some(<<s.id, s.name, s.latitude, s.longitude>>)
                     /\ sfPc' = "returned"
                     /\ UNCHANGED <<sfIdx, sfError>>
                ELSE /\ sfIdx' = sfIdx + 1
                     /\ UNCHANGED <<sfResult, sfPc, sfError>>
    /\ UNCHANGED <<origin, dirResp, csvHost, stations>>

\* lines 47-64: one turn of the for loop
ProbeStation ==
    /\ sfPc = "scan"
    /\ sfIdx <= Len(stations)
    /\ LET s == stations[sfIdx]
           code == StationCode(s.id)
       IN  /\ requests' = Append(requests, ProbeRequest(code))
           /\ IF ProbeAccepts(csvHost[code])
                THEN /\ sfResult' = Some(<<s.id, s.name, s.latitude, s.longitude>>)
                     /\ sfPc' = "returned"
                     /\ UNCHANGED sfIdx
                ELSE /\ sfIdx' = sfIdx + 1
                     /\ UNCHANGED <<sfResult, sfPc>>
    /\ UNCHANGED <<origin, dirResp, csvHost, stations, sfError>>

\* lines 66-68: the loop ended without a return
ScanExhausted ==
    /\ sfPc = "scan"
    /\ sfIdx > Len(stations)
    /\ sfPc' = "raised"
    /\ sfError' = "NoQualifyingStation"
    /\ UNCHANGED <<origin, dirResp, csvHost, stations, sfIdx, sfResult, requests>>


-----------------------------------------------------------------------------
(* Numbers: Python floats, kept exact as fractions n/d in lowest terms *)

RECURSIVE GCD(_, _)
GCD(a, b) == IF b = 0 THEN a ELSE GCD(b, a % b)

\* n/d for d > 0
Rat(n, d) ==
    LET g == GCD(Abs(n), d)
    IN  [n |-> n \div g, d |-> d \div g]

FromInt(k) == Rat(k, 1)

RAdd(a, b) == Rat(a.n * b.d + b.n * a.d, a.d * b.d)

RSub(a, b) == Rat(a.n * b.d - b.n * a.d, a.d * b.d)

RNeg(a) == Rat(-a.n, a.d)

RLt(a, b) == a.n * b.d < b.n * a.d

RLe(a, b) == a.n * b.d <= b.n * a.d

\* Python's max(a, b) and min(a, b): the first argument wins a tie
RMax(a, b) == IF RLt(a, b) THEN b ELSE a

RMin(a, b) == IF RLt(b, a) THEN b ELSE a

\* Variant with a bug (used to test the claims, no part of the model): the
\* first period stands for the high, as in get_weather_summary.py line 161.
FirstOfList(l) == l[1]

\* max() and min() of a non-empty list of ints
RECURSIVE ListMax(_)
ListMax(l) ==
    IF Len(l) = 1 THEN l[1]
    ELSE LET m == ListMax(Tail(l)) IN IF m > l[1] THEN m ELSE l[1]

RECURSIVE ListMin(_)
ListMin(l) ==
    IF Len(l) = 1 THEN l[1]
    ELSE LET m == ListMin(Tail(l)) IN IF m < l[1] THEN m ELSE l[1]

-----------------------------------------------------------------------------
(* Dates and clocks: datetime and pandas.Timestamp as the code uses them *)

Date(y, m, d) == [y |-> y, m |-> m, d |-> d]

IsLeap(y) == (y % 4 = 0 /\ y % 100 # 0) \/ y % 400 = 0

DaysInMonth(y, m) ==
    IF m = 2 THEN (IF IsLeap(y) THEN 29 ELSE 28)
    ELSE IF m \in {4, 6, 9, 11} THEN 30 ELSE 31

NextDay(dt) ==
    IF dt.d < DaysInMonth(dt.y, dt.m) THEN Date(dt.y, dt.m, dt.d + 1)
    ELSE IF dt.m < 12 THEN Date(dt.y, dt.m + 1, 1)
    ELSE Date(dt.y + 1, 1, 1)

PrevDay(dt) ==
    IF dt.d > 1 THEN Date(dt.y, dt.m, dt.d - 1)
    ELSE IF dt.m > 1 THEN Date(dt.y, dt.m - 1, DaysInMonth(dt.y, dt.m - 1))
    ELSE Date(dt.y - 1, 12, 31)

\* the wall clock `off` hours away from [date, hour], for -24 < off < 24
Shifted(date, hour, off) ==
    LET h == hour + off
    IN  IF h < 0 THEN [date |-> PrevDay(date), hour |-> h + 24]
        ELSE IF h >= 24 THEN [date |-> NextDay(date), hour |-> h - 24]
        ELSE [date |-> date, hour |-> h]

\* datetime.now(timezone.utc).date()
UtcToday == now.date

\* pd.Timestamp.now(): the naive local wall clock
LocalNow == Shifted(now.date, now.hour, tz)

DigitChars == <<"0", "1", "2", "3", "4", "5", "6", "7", "8", "9">>

\* "%02d" of a number below 100
TwoDigits(k) == <<DigitChars[(k \div 10) + 1], DigitChars[(k % 10) + 1]>>

\* strftime("%m-%d"), a string as the sequence of its characters
MonthDayKey(dt) == TwoDigits(dt.m) \o <<"-">> \o TwoDigits(dt.d)

-----------------------------------------------------------------------------
(* The environment of the normals reader *)

Clocks ==
    { [date |-> dt, hour |-> h] :
        dt \in {Date(2024, 5, 31), Date(2024, 6, 1)}, h \in {3, 21} }

Offsets == {-5, 0, 5}

CsvDays == {Date(2024, 5, 31), Date(2024, 6, 1), Date(2024, 6, 2)}

\* <<DLY-TMAX-NORMAL, DLY-TMAX-STDDEV, DLY-TMIN-NORMAL, DLY-TMIN-STDDEV>> in
\* tenths of a degree F; -9999 is the published files' "missing" mark
CsvValues ==
    { <<755, 35, 520, 42>>, <<-15, 0, -120, 0>>,
      <<333, 67, 101, 33>>, <<700, -9999, 500, -9999>> }

CsvRows ==
    { [DATE |-> MonthDayKey(dt), TMAX_NORMAL |-> v[1], TMAX_STDDEV |-> v[2],
       TMIN_NORMAL |-> v[3], TMIN_STDDEV |-> v[4]] : dt \in CsvDays, v \in CsvValues }

CsvFiles ==
    { [ok |-> FALSE, rows |-> <<>>] }
    \cup { [ok |-> TRUE, rows |-> r] :
             r \in UNION { [1..n -> CsvRows] : n \in 0..MaxRows } }

-----------------------------------------------------------------------------
(* NOAAStationService.get_normals_for_today *)

\* Variant with a bug (used to test the claims, no part of the model): the
\* frame is not filtered, its first row is taken whatever its DATE.
RowsOfAnyDay(frame, today_md) == frame

\* df[df["DATE"] == today_md]
RowsForDay(frame, today_md) ==
    LET Matches(row) == row.DATE = today_md
    IN  SelectSeq(frame, Matches)

\* k / 10 for an int64 k
Tenth(k) == Rat(k, 10)

\* Variant with a bug (used to test the claims, no part of the model): the
\* deviation is added on the low side too.
NormalsOfRowBothAdded(row) ==
    [high_avg |-> Tenth(row.TMAX_NORMAL),
     high_sd  |-> Tenth(row.TMAX_NORMAL + row.TMAX_STDDEV),
     low_avg  |-> Tenth(row.TMIN_NORMAL),
     low_sd   |-> Tenth(row.TMIN_NORMAL + row.TMIN_STDDEV)]

\* lines 86-99
NormalsOfRow(row) ==
    [high_avg |-> Tenth(row.TMAX_NORMAL),
     high_sd  |-> Tenth(row.TMAX_NORMAL + row.TMAX_STDDEV),
     low_avg  |-> Tenth(row.TMIN_NORMAL),
     low_sd   |-> Tenth(row.TMIN_NORMAL - row.TMIN_STDDEV)]

\* today_md = pd.Timestamp.now().strftime("%m-%d")
TodayMd == MonthDayKey(LocalNow.date)

\* lines 77-80: the whole CSV is read
ReadNormalsCsv ==
    /\ nrPc = "start"
    /\ IF csvFile.ok
         THEN /\ df' = csvFile.rows
              /\ nrPc' = "loaded"
              /\ UNCHANGED nrError
         ELSE /\ nrPc' = "raised"
              /\ nrError' = "UpstreamUnavailable"
              /\ UNCHANGED df
    /\ UNCHANGED <<csvFile, nrResult>>

\* lines 82-99: today's row is taken (.iloc[0] of no row raises) and converted
ExtractNormals ==
    /\ nrPc = "loaded"
    /\ LET found == RowsForDay(df, TodayMd)
       IN  IF found = <<>>
             THEN /\ nrPc' = "raised"
                  /\ nrError' = "NormalsRowMissing"
                  /\ UNCHANGED nrResult
             ELSE /\ nrPc' = "returned"
                  /\ nrResult' = Some(NormalsOfRow(found[1]))
                  /\ UNCHANGED nrError
    /\ UNCHANGED <<csvFile, df>>

-----------------------------------------------------------------------------
(* The environment of the conditions fetcher *)

\* entry['startTime'], an ISO timestamp: the wall-clock date and hour it is
\* written with, and the UTC offset it carries
StartTime(dt, h, off) == [date |-> dt, hour |-> h, offset |-> off]

StartTimes ==
    { StartTime(Date(2024, 6, 1), 6, -4), StartTime(Date(2024, 6, 1), 22, -4),
      StartTime(Date(2024, 6, 2), 2, 5),  StartTime(Date(2024, 6, 2), 18, 0) }

ForecastTemps == {50, 70}

Periods == [startTime : StartTimes, temperature : ForecastTemps]

PeriodLists == UNION { [1..n -> Periods] : n \in 0..MaxPeriods }

\* degrees C as the provider reports them: 10.0 and 23.9, or null
CelsiusValues == { None, Some(FromInt(10)), Some(Rat(239, 10)) }

Observations ==
    [temperature : CelsiusValues, maxTemperatureLast24Hours : CelsiusValues,
     minTemperatureLast24Hours : CelsiusValues]

Todays == {Date(2024, 6, 1), Date(2024, 6, 2)}

\* the request that goes wrong: none; one of the four answered with an error
\* status; or the station list answered with no feature
Faults == {"none", "point", "stations", "nofeats", "observation", "forecast"}

-----------------------------------------------------------------------------
(* WeatherGovService.get_current_conditions *)

\* (value * 9 / 5) + 32
ToFahrenheit(c) == RAdd(Rat(c.n * 9, c.d * 5), FromInt(32))

\* Variant with a bug (used to test the claims, no part of the model): a null
\* reading stays null, the current temperature does not stand in for it.
FahrenheitOrNull(reading, otherwise) ==
    IF reading.has THEN Some(ToFahrenheit(reading.val)) ELSE None

\* lines 94, 96-105: a reading in degrees F, or `otherwise` when it is null
FahrenheitOr(reading, otherwise) ==
    IF reading.has THEN Some(ToFahrenheit(reading.val)) ELSE otherwise

\* datetime.fromisoformat(entry['startTime']).date()
PeriodDate(entry) == entry.startTime.date

\* lines 84-87
ForecastPeriodsToday(forecast_periods, td) ==
    LET OnDay(entry) == PeriodDate(entry) = td
    IN  SelectSeq(forecast_periods, OnDay)

\* line 88
TempsOf(periods) == [i \in 1..Len(periods) |-> periods[i].temperature]

\* Variant with a bug (used to test the claims, no part of the model): the
\* lesser of the forecast high and the observed maximum is reported.
HighOfLesser(f_high, max24_f) ==
    IF max24_f.has THEN RMin(FromInt(f_high), max24_f.val) ELSE FromInt(f_high)

\* line 107
HighOf(f_high, max24_f) ==
    IF max24_f.has THEN RMax(FromInt(f_high), max24_f.val) ELSE FromInt(f_high)

\* line 108
LowOf(f_low, min24_f) ==
    IF min24_f.has THEN RMin(FromInt(f_low), min24_f.val) ELSE FromInt(f_low)

\* lines 94-127
ConditionsOf(obs, f_high, f_low) ==
    LET cur_f   == FahrenheitOr(obs.temperature, None)
        max24_f == FahrenheitOr(obs.maxTemperatureLast24Hours, cur_f)
        min24_f == FahrenheitOr(obs.minTemperatureLast24Hours, cur_f)
    IN  [temperature_F |-> cur_f,
         highlow |-> <<HighOf(f_high, max24_f), LowOf(f_low, min24_f)>>]

\* line 72: _point_metadata
PointMetadata ==
    /\ cfPc = "start"
    /\ IF wxFault = "point"
         THEN cfPc' = "raised" /\ cfError' = "UpstreamUnavailable"
         ELSE cfPc' = "point" /\ UNCHANGED cfError
    /\ UNCHANGED <<today, wxFault, wxObs, wxPeriods, cfLocals, cfResult>>

\* lines 75-76: _first_observation_station
FirstObservationStation ==
    /\ cfPc = "point"
    /\ IF wxFault = "stations"
         THEN cfPc' = "raised" /\ cfError' = "UpstreamUnavailable"
         ELSE IF wxFault = "nofeats"
         THEN cfPc' = "raised" /\ cfError' = "NoObservationStation"
         ELSE cfPc' = "station" /\ UNCHANGED cfError
    /\ UNCHANGED <<today, wxFault, wxObs, wxPeriods, cfLocals, cfResult>>

\* line 79: _latest_observation
LatestObservation ==
    /\ cfPc = "station"
    /\ IF wxFault = "observation"
         THEN cfPc' = "raised" /\ cfError' = "UpstreamUnavailable"
         ELSE cfPc' = "observed" /\ UNCHANGED cfError
    /\ UNCHANGED <<today, wxFault, wxObs, wxPeriods, cfLocals, cfResult>>

\* lines 82-127: _forecast_data, the filter, max() and min() (of no
\* temperature they raise), the conversions and the result
ForecastAndAssemble ==
    /\ cfPc = "observed"
    /\ IF wxFault = "forecast"
         THEN /\ cfPc' = "raised" /\ cfError' = "UpstreamUnavailable"
              /\ UNCHANGED <<cfLocals, cfResult>>
         ELSE LET forecast_periods_today == ForecastPeriodsToday(wxPeriods, today)
                  temps == TempsOf(forecast_periods_today)
              IN  IF temps = <<>>
                    THEN /\ cfPc' = "raised" /\ cfError' = "NoForecastForToday"
                         /\ cfLocals' = Some([forecast_periods_today |-> forecast_periods_today,
                                              temps |-> temps,
                                              f_high |-> None, f_low |-> None])
                         /\ UNCHANGED cfResult
                    ELSE /\ cfPc' = "returned"
                         /\ cfLocals' = Some([forecast_periods_today |-> forecast_periods_today,
                                              temps |-> temps,
                                              f_high |-> Some(ListMax(temps)),
                                              f_low |-> Some(ListMin(temps))])
                         /\ cfResult' = Some(ConditionsOf(wxObs, ListMax(temps), ListMin(temps)))
                         /\ UNCHANGED cfError
    /\ UNCHANGED <<today, wxFault, wxObs, wxPeriods>>

-----------------------------------------------------------------------------
(* The presenters' last steps: the deltas and how they are worded *)

\* format(x, ".1f") for x >= 0: the number of tenths shown (75.5 is 755),
\* rounded to nearest, a tie to the even one
OneDecimal(x) ==
    LET q == (x.n * 10) \div x.d
        r == (x.n * 10) - q * x.d
    IN  IF 2 * r < x.d THEN q
        ELSE IF 2 * r > x.d THEN q + 1
        ELSE IF q % 2 = 0 THEN q ELSE q + 1

Zero == FromInt(0)

\* Variant with a bug (used to test the claims, no part of the model): two
\* cases only, as in get_weather_summary.py line 202.
colourize_two_cases(delta, positive_color, negative_color) ==
    IF RLt(Zero, delta)
      THEN [colour |-> positive_color, tenths |-> OneDecimal(delta), text |-> "warmer"]
      ELSE [colour |-> negative_color, tenths |-> OneDecimal(RNeg(delta)), text |-> "cooler"]

\* src/src/main.py, colourize
colourize(delta, positive_color, negative_color) ==
    IF RLt(Zero, delta)
      THEN [colour |-> positive_color, tenths |-> OneDecimal(delta), text |-> "warmer"]
    ELSE IF RLt(delta, Zero)
      THEN [colour |-> negative_color, tenths |-> OneDecimal(RNeg(delta)), text |-> "cooler"]
    ELSE [colour |-> "GREEN", tenths |-> 0, text |-> "no change"]

\* src/app.py, colourize
colourize_html(delta) ==
    IF RLt(Zero, delta)
      THEN [colour |-> "RED", tenths |-> OneDecimal(delta), text |-> "warmer"]
    ELSE IF RLt(delta, Zero)
      THEN [colour |-> "CYAN", tenths |-> OneDecimal(RNeg(delta)), text |-> "cooler"]
    ELSE [colour |-> "green", tenths |-> 0, text |-> "no change"]

\* Variant with a bug (used to test the claims, no part of the model): the
\* test looks at the normals alone, as in get_weather_summary.py lines 207-208.
in_range_of_normals_alone(current_highlow, normals_dict) ==
    <<RLt(normals_dict.high_avg, normals_dict.high_sd),
      RLt(normals_dict.low_sd, normals_dict.low_avg)>>

\* main.py 94-95: <<high_in_range, low_in_range>>
in_range(current_highlow, normals_dict) ==
    <<RLe(current_highlow[1], normals_dict.high_sd),
      RLe(normals_dict.low_sd, current_highlow[2])>>

\* Variant with a bug (used to test the claims, no part of the model): the
\* two one-sided messages change places.
RangeMessageSwapped(high_in_range, low_in_range) ==
    IF high_in_range /\ low_in_range THEN "both within"
    ELSE IF high_in_range THEN "low within, high above"
    ELSE IF low_in_range THEN "high within, low below"
    ELSE "both outside"

\* main.py 97-104
RangeMessage(high_in_range, low_in_range) ==
    IF high_in_range /\ low_in_range THEN "both within"
    ELSE IF high_in_range THEN "high within, low below"
    ELSE IF low_in_range THEN "low within, high above"
    ELSE "both outside"

\* main.py 82-105: steps 6 and 7 of main()
CliReport ==
    /\ dcPc = "start"
    /\ LET delta_high == RSub(highlow[1], normals.high_avg)
           delta_low  == RSub(highlow[2], normals.low_avg)
           high_in_range == in_range(highlow, normals)[1]
           low_in_range  == in_range(highlow, normals)[2]
       IN  cliOut' = Some([high |-> colourize(delta_high, "RED", "CYAN"),
                           low  |-> colourize(delta_low, "RED", "CYAN"),
                           high_in_range |-> high_in_range,
                           low_in_range  |-> low_in_range,
                           msg  |-> RangeMessage(high_in_range, low_in_range)])
    /\ dcPc' = "cli"
    /\ UNCHANGED <<highlow, normals, webOut>>

\* app.py 84-104: the deltas and the template's arguments
WebRender ==
    /\ dcPc = "start"
    /\ LET delta_high == RSub(highlow[1], normals.high_avg)
           delta_low  == RSub(highlow[2], normals.low_avg)
       IN  webOut' = Some([delta_high_html |-> colourize_html(delta_high),
                           delta_low_html  |-> colourize_html(delta_low)])
    /\ dcPc' = "web"
    /\ UNCHANGED <<highlow, normals, cliOut>>

\* current["highlow"] as the presenters may receive it
HighValues ==
    { Rat(151, 2), Rat(3776, 50), FromInt(79), FromInt(82), FromInt(70) }

LowValues ==
    { FromInt(52), Rat(2599, 50), Rat(239, 5), FromInt(40), FromInt(60) }

NormalsValues == { NormalsOfRow(row) : row \in CsvRows }

-----------------------------------------------------------------------------
(* Strings, as sequences of one-character strings *)

Digits == {"0", "1", "2", "3", "4", "5", "6", "7", "8", "9"}

\* str.isdigit() of a string of the model's alphabet (ASCII)
isdigit(s) == s # <<>> /\ \A i \in 1..Len(s) : s[i] \in Digits

\* str.strip(): the blanks at both ends go
strip(s) ==
    LET kept == { i \in 1..Len(s) : s[i] # " " }
        first == CHOOSE i \in kept : \A j \in kept : i <= j
        last  == CHOOSE i \in kept : \A j \in kept : j <= i
    IN  IF kept = {} THEN <<>> ELSE SubSeq(s, first, last)

\* str.split(sep): the pieces between the separators, empty ones included
RECURSIVE split(_, _)
split(s, sep) ==
    LET at == { i \in 1..Len(s) : s[i] = sep }
        k  == CHOOSE i \in at : \A j \in at : i <= j
    IN  IF at = {} THEN <<s>>
        ELSE <<SubSeq(s, 1, k - 1)>> \o split(SubSeq(s, k + 1, Len(s)), sep)

-----------------------------------------------------------------------------
(* The environment of the location resolver *)

Presenters == {"cli", "web"}

\* what may be typed
LocInputs ==
    { <<"1", "0", "0", "0", "1">>,
      <<" ", "1", "0", "0", "0", "1">>,
      <<"1", "2", "3", "4">>,
      <<"1", "0", "0", "0", "a">>,
      <<"a", "b", "c">>,
      <<"S", "p", "r", "i", "n", "g", "f", "i", "e", "l", "d">>,
      <<"S", "p", "r", "i", "n", "g", "f", "i", "e", "l", "d", ",", " ", "I", "L">>,
      <<"S", "p", "r", "i", "n", "g", "f", "i", "e", "l", "d", ",", "I", "L", ",", "U", "S">>,
      <<>>,
      <<",">> }

\* the geocoder's answer to /us/{state}/{city}: a place with its post code; no
\* such place (404); a 200 with an empty "places"; no answer at all (status 0:
\* requests.get raises)
GeoCityAnswers ==
    { [status |-> 200, places |-> << [post_code |-> <<"6", "2", "7", "0", "1">>] >>],
      [status |-> 404, places |-> <<>>],
      [status |-> 200, places |-> <<>>],
      [status |-> 0, places |-> <<>>] }

\* the geocoder's answer to /us/{zip}
GeoZipAnswers ==
    { [status |-> 200, places |-> << [latitude |-> 40, longitude |-> -74] >>],
      [status |-> 404, places |-> <<>>],
      [status |-> 200, places |-> <<>>],
      [status |-> 0, places |-> <<>>] }

CityRequest(state, city) == [kind |-> "city", state |-> state, city |-> city, zip |-> <<>>]
ZipRequest(zip) == [kind |-> "zip", state |-> <<>>, city |-> <<>>, zip |-> zip]

-----------------------------------------------------------------------------
(* ZipLookupService and the presenters' first steps *)

\* input(...).strip() of main.py 28, request.form.get(...).strip() of app.py 33
Loc == strip(locInput)

\* len(loc) == 5 and loc.isdigit()
IsZip(loc) == Len(loc) = 5 /\ isdigit(loc)

\* how a presenter ends a run on an exception that reaches it: main() catches
\* nothing (the interpreter prints the traceback), index() flashes str(exc)
\* and redirects
Uncaught(p) == IF p = "cli" THEN "traceback" ELSE "flash"

\* how a presenter ends a run it gives up itself: sys.exit(message) or flash
GivesUp(p) == IF p = "cli" THEN "exit" ELSE "flash"

Failed(stage, kind, how) == Some([stage |-> stage, kind |-> kind, how |-> how])

\* zip_lookup.py 18-32, city_state_to_zip, the whole call: the requests it
\* sends, the lines it prints and what it returns.  The unpacking of line 25
\* raises ValueError unless the split gives two parts; every exception is
\* caught at line 30, printed, and None is returned.
city_state_to_zip(city_state, answer) ==
    LET pieces == split(city_state, ",")
        parts == [i \in 1..Len(pieces) |-> strip(pieces[i])]
    IN  IF Len(parts) # 2
          THEN [sent |-> <<>>, printed |-> <<"convert error">>, result |-> None]
        ELSE LET sent == <<CityRequest(parts[2], parts[1])>>
             IN  IF answer.status = 0
                   THEN [sent |-> sent, printed |-> <<"convert error">>, result |-> None]
                 ELSE IF answer.status # 200
                   THEN [sent |-> sent, printed |-> <<>>, result |-> None]
                 ELSE IF answer.places = <<>>
                   THEN [sent |-> sent, printed |-> <<"convert error">>, result |-> None]
                 ELSE [sent |-> sent, printed |-> <<>>,
                       result |-> Some(answer.places[1].post_code)]

\* zip_lookup.py 8-16, zip_to_latlon: the exception it leaves with, or the pair
zip_to_latlon(answer) ==
    IF answer.status = 0 THEN [raised |-> "ConnectionError", result |-> None]
    ELSE IF answer.status # 200 THEN [raised |-> "ValueError", result |-> None]
    ELSE IF answer.places = <<>> THEN [raised |-> "IndexError", result |-> None]
    ELSE [raised |-> "none",
          result |-> Some(<<answer.places[1].latitude, answer.places[1].longitude>>)]

\* main.py 28-32, app.py 33-46: the input is read and told apart
ReadLocation ==
    /\ lrPc = "start"
    /\ IF presenter = "web" /\ Loc = <<>>
         THEN /\ lrPc' = "failed"
              /\ failure' = Failed("location", "Please enter", "flash")
              /\ UNCHANGED <<zip_code, stdout>>
         ELSE IF IsZip(Loc)
         THEN /\ lrPc' = "lookup"
              /\ zip_code' = Some(Loc)
              /\ UNCHANGED <<stdout, failure>>
         ELSE /\ lrPc' = "city"
              /\ stdout' = IF presenter = "cli" THEN Append(stdout, "resolving") ELSE stdout
              /\ UNCHANGED <<zip_code, failure>>
    /\ UNCHANGED <<presenter, locInput, geoCity, geoZip, latlon, geoRequests>>

\* main.py 33-36, app.py 46-49: city_state_to_zip is called and its result
\* tested
CityStateToZip ==
    /\ lrPc = "city"
    /\ LET call == city_state_to_zip(Loc, geoCity)
       IN  /\ geoRequests' = geoRequests \o call.sent
           /\ zip_code' = call.result
           /\ IF ~call.result.has \/ call.result = Some(<<>>)
                THEN /\ lrPc' = "failed"
                     /\ failure' = Failed("location", "Could not resolve", GivesUp(presenter))
                     /\ stdout' = stdout \o call.printed
                ELSE /\ lrPc' = "lookup"
                     /\ stdout' = IF presenter = "cli"
                                    THEN (stdout \o call.printed) \o <<"resolved">>
                                    ELSE stdout \o call.printed
                     /\ UNCHANGED failure
    /\ UNCHANGED <<presenter, locInput, geoCity, geoZip, latlon>>

\* main.py 41-42, app.py 51-56: zip_to_latlon is called
ZipToLatLon ==
    /\ lrPc = "lookup"
    /\ LET call == zip_to_latlon(geoZip)
       IN  /\ geoRequests' = Append(geoRequests, ZipRequest(zip_code.val))
           /\ latlon' = call.result
           /\ IF call.raised # "none"
                THEN /\ lrPc' = "failed"
                     /\ failure' = Failed("location", call.raised, Uncaught(presenter))
                     /\ UNCHANGED stdout
                ELSE /\ lrPc' = "located"
                     /\ stdout' = IF presenter = "cli"
                                    THEN Append(stdout, "coordinates") ELSE stdout
                     /\ UNCHANGED failure
    /\ UNCHANGED <<presenter, locInput, geoCity, geoZip, zip_code>>

-----------------------------------------------------------------------------
(* One run of a presenter: main() of src/src/main.py, index() of src/app.py *)

\* the variables of the station service other than the argument
sfEnv == <<dirResp, csvHost, sfPc, stations, sfIdx, sfResult, sfError, requests>>

\* the variables of the weather service other than the argument
cfEnv == <<wxFault, wxObs, wxPeriods, cfPc, cfLocals, cfResult, cfError>>

\* weather_gov.py 60: the parameters of get_current_conditions after self,
\* none with a default
ConditionsParameters == <<"lat", "lon", "today">>

\* the positional arguments passed: main.py 69 passes (lat, lon), app.py 75
\* passes (lat, lon, today)
ConditionsArguments(p) ==
    IF p = "cli" THEN <<"lat", "lon">> ELSE <<"lat", "lon", "today">>

\* a call binds when every parameter gets an argument and none is left over;
\* Python raises TypeError otherwise, before the body runs
Binds(arguments, parameters) == Len(arguments) = Len(parameters)

\* main.py 47, app.py 63-68: the station service is called with the
\* coordinates found; index() has taken `today` just before
CallStationFinder ==
    /\ runPc = "location"
    /\ lrPc = "located"
    /\ origin' = latlon.val
    /\ today' = IF presenter = "web" THEN UtcToday ELSE today
    /\ runPc' = "station"
    /\ calls' = Append(calls, "get_closest_station_with_normals")
    /\ UNCHANGED <<sfEnv, clockVars, nrVars, cfEnv, dcVars, lrVars, uiVars>>

\* main.py 47-58, app.py 66-73: the station service has answered; main()
\* prints the station; the normals are asked for
StationFinderDone ==
    /\ runPc = "station"
    /\ sfPc \in {"returned", "raised"}
    /\ IF sfPc = "raised"
         THEN /\ runPc' = "failed"
              /\ failure' = Failed("station", sfError, Uncaught(presenter))
              /\ UNCHANGED <<stdout, calls>>
         ELSE /\ runPc' = "normals"
              /\ stdout' = IF presenter = "cli" THEN Append(stdout, "station") ELSE stdout
              /\ calls' = Append(calls, "get_normals_for_today")
              /\ UNCHANGED failure
    /\ UNCHANGED <<sfVars, clockVars, nrVars, cfVars, dcVars, lrVars>>

\* main.py 58-64, app.py 73: the normals have been read; main() takes `today`
\* and prints the normals under that date
NormalsReaderDone ==
    /\ runPc = "normals"
    /\ nrPc \in {"returned", "raised"}
    /\ IF nrPc = "raised"
         THEN /\ runPc' = "failed"
              /\ failure' = Failed("normals", nrError, Uncaught(presenter))
              /\ UNCHANGED <<normals, today, stdout>>
         ELSE /\ runPc' = "call conditions"
              /\ normals' = nrResult.val
              /\ today' = IF presenter = "cli" THEN UtcToday ELSE today
              /\ stdout' = IF presenter = "cli" THEN Append(stdout, "normals") ELSE stdout
              /\ UNCHANGED failure
    /\ UNCHANGED <<sfVars, clockVars, nrVars, cfEnv, highlow, dcPc, cliOut, webOut,
                   lrVars, calls>>

\* main.py 69, app.py 75: get_current_conditions is called
CallConditionsFetcher ==
    /\ runPc = "call conditions"
    /\ IF Binds(ConditionsArguments(presenter), ConditionsParameters)
         THEN /\ runPc' = "conditions"
              /\ calls' = Append(calls, "get_current_conditions")
              /\ UNCHANGED failure
         ELSE /\ runPc' = "failed"
              /\ failure' = Failed("conditions", "TypeError", Uncaught(presenter))
              /\ UNCHANGED calls
    /\ UNCHANGED <<sfVars, clockVars, nrVars, cfVars, dcVars, lrVars, stdout>>

\* main.py 69-83, app.py 75-85: the weather service has answered; main()
\* prints the weather station and the temperatures; the deltas are next
ConditionsFetcherDone ==
    /\ runPc = "conditions"
    /\ cfPc \in {"returned", "raised"}
    /\ IF cfPc = "raised"
         THEN /\ runPc' = "failed"
              /\ failure' = Failed("conditions", cfError, Uncaught(presenter))
              /\ UNCHANGED <<highlow, stdout, calls>>
         ELSE /\ runPc' = "delta"
              /\ highlow' = cfResult.val.highlow
              /\ stdout' = IF presenter = "cli"
                             THEN stdout \o <<"weather station", "temperatures">>
                             ELSE stdout
              /\ calls' = Append(calls, "deltas")
              /\ UNCHANGED failure
    /\ UNCHANGED <<sfVars, clockVars, nrVars, cfVars, normals, dcPc, cliOut, webOut, lrVars>>

\* main.py 82-105, app.py 84-104: the deltas, their wording, and the output
Report ==
    /\ runPc = "delta"
    /\ IF presenter = "cli"
         THEN CliReport /\ stdout' = stdout \o <<"deltas", "range message">>
         ELSE WebRender /\ UNCHANGED stdout
    /\ runPc' = "rendered"
    /\ UNCHANGED <<sfVars, clockVars, nrVars, cfVars, lrVars, failure, calls>>

\* the worlds of a whole run: one or no station, one or no CSV row, one or no
\* forecast period, and an input of each kind

RunLocInputs ==
    { s \in LocInputs :
        \/ s = <<"1", "0", "0", "0", "1">>
        \/ s = <<"a", "b", "c">>
        \/ (Len(split(s, ",")) = 2 /\ Len(s) > 1) }

RunGeoCityAnswers == { a \in GeoCityAnswers : a.status # 0 /\ (a.status = 200 => a.places # <<>>) }

RunGeoZipAnswers == { a \in GeoZipAnswers : a.status # 0 /\ (a.status = 200 => a.places # <<>>) }

RunDirectoryAnswers ==
    { a \in DirectoryAnswers :
        /\ Len(a.results) <= 1
        /\ \A i \in 1..Len(a.results) :
              a.results[i].latitude = 40 /\ a.results[i].longitude = -75 }

RunCsvFiles ==
    { f \in CsvFiles :
        /\ Len(f.rows) <= 1
        /\ \A i \in 1..Len(f.rows) : f.rows[i].TMAX_NORMAL = 755 }

RunObservation ==
    [temperature |-> Some(FromInt(10)),
     maxTemperatureLast24Hours |-> Some(Rat(239, 10)),
     minTemperatureLast24Hours |-> None]

RunPeriodLists ==
    { <<>> } \cup
    { << [startTime |-> StartTime(dt, 12, 0), temperature |-> 70] >> :
        dt \in {Date(2024, 5, 31), Date(2024, 6, 1)} }

-----------------------------------------------------------------------------
(* Initial states: each specification draws the world of one operation and *)
(* leaves the others at rest                                               *)

StationWorld ==
    /\ origin \in Origins
    /\ dirResp \in DirectoryAnswers
    /\ csvHost \in [1..Len(dirResp.results) -> ProbeOutcomes]
    /\ sfPc = "start"
    /\ stations = <<>>
    /\ sfIdx = 1
    /\ sfResult = None
    /\ sfError = "none"
    /\ requests = <<>>

StationAtRest ==
    /\ origin = <<40, -74>>
    /\ dirResp = [status |-> 200, hasResults |-> FALSE, results |-> <<>>]
    /\ csvHost = <<>>
    /\ sfPc = "start"
    /\ stations = <<>>
    /\ sfIdx = 1
    /\ sfResult = None
    /\ sfError = "none"
    /\ requests = <<>>

ClockWorld ==
    /\ now \in Clocks
    /\ tz \in Offsets

ClockAtRest ==
    /\ now = [date |-> Date(2024, 6, 1), hour |-> 3]
    /\ tz = 0

NormalsWorld ==
    /\ csvFile \in CsvFiles
    /\ nrPc = "start"
    /\ df = <<>>
    /\ nrResult = None
    /\ nrError = "none"

NormalsAtRest ==
    /\ csvFile = [ok |-> TRUE, rows |-> <<>>]
    /\ nrPc = "start"
    /\ df = <<>>
    /\ nrResult = None
    /\ nrError = "none"

ConditionsWorld ==
    /\ today \in Todays
    /\ wxFault \in Faults
    /\ wxObs \in Observations
    /\ wxPeriods \in PeriodLists
    /\ cfPc = "start"
    /\ cfLocals = None
    /\ cfResult = None
    /\ cfError = "none"

ConditionsAtRest ==
    /\ today = Date(2024, 6, 1)
    /\ wxFault = "none"
    /\ wxObs = [temperature |-> None, maxTemperatureLast24Hours |-> None,
                minTemperatureLast24Hours |-> None]
    /\ wxPeriods = <<>>
    /\ cfPc = "start"
    /\ cfLocals = None
    /\ cfResult = None
    /\ cfError = "none"

DeltaWorld ==
    /\ highlow \in HighValues \X LowValues
    /\ normals \in NormalsValues
    /\ dcPc = "start"
    /\ cliOut = None
    /\ webOut = None

DeltaAtRest ==
    /\ highlow = <<Zero, Zero>>
    /\ normals = NormalsOfRow(CHOOSE row \in CsvRows : TRUE)
    /\ dcPc = "start"
    /\ cliOut = None
    /\ webOut = None

LocationWorld ==
    /\ presenter \in Presenters
    /\ locInput \in LocInputs
    /\ geoCity \in GeoCityAnswers
    /\ geoZip \in GeoZipAnswers
    /\ lrPc = "start"
    /\ zip_code = None
    /\ latlon = None
    /\ geoRequests = <<>>

LocationAtRest ==
    /\ presenter = "cli"
    /\ locInput = <<>>
    /\ geoCity = [status |-> 404, places |-> <<>>]
    /\ geoZip = [status |-> 404, places |-> <<>>]
    /\ lrPc = "start"
    /\ zip_code = None
    /\ latlon = None
    /\ geoRequests = <<>>

\* nothing printed, no error yet
UserAtRest ==
    /\ stdout = <<>>
    /\ failure = None

\* the presenter has called nothing yet
RunAtRest ==
    /\ runPc = "location"
    /\ calls = <<>>

RunWorld ==
    /\ presenter \in Presenters
    /\ locInput \in RunLocInputs
    /\ geoCity \in RunGeoCityAnswers
    /\ geoZip \in RunGeoZipAnswers
    /\ lrPc = "start" /\ zip_code = None /\ latlon = None /\ geoRequests = <<>>
    /\ origin = <<40, -74>>
    /\ dirResp \in RunDirectoryAnswers
    /\ csvHost \in [1..Len(dirResp.results) -> ProbeOutcomes]
    /\ sfPc = "start" /\ stations = <<>> /\ sfIdx = 1 /\ sfResult = None
    /\ sfError = "none" /\ requests = <<>>
    /\ csvFile \in RunCsvFiles
    /\ nrPc = "start" /\ df = <<>> /\ nrResult = None /\ nrError = "none"
    /\ today = Date(2024, 6, 1)
    /\ wxFault \in Faults
    /\ wxObs = RunObservation
    /\ wxPeriods \in RunPeriodLists
    /\ cfPc = "start" /\ cfLocals = None /\ cfResult = None /\ cfError = "none"

-----------------------------------------------------------------------------
(* get_closest_station_with_normals, called once *)

InitStation ==
    /\ StationWorld /\ ClockAtRest /\ NormalsAtRest /\ ConditionsAtRest /\ DeltaAtRest
    /\ LocationAtRest /\ UserAtRest /\ RunAtRest

NextStation ==
    \/ QueryDirectory /\ UNCHANGED <<clockVars, nrVars, cfVars, dcVars, lrVars, uiVars, runVars>>
    \/ ProbeStation /\ UNCHANGED <<clockVars, nrVars, cfVars, dcVars, lrVars, uiVars, runVars>>
    \/ ScanExhausted /\ UNCHANGED <<clockVars, nrVars, cfVars, dcVars, lrVars, uiVars, runVars>>

SpecStation == InitStation /\ [][NextStation]_vars

(* get_normals_for_today, called once *)

InitNormals ==
    /\ StationAtRest /\ ClockWorld /\ NormalsWorld /\ ConditionsAtRest /\ DeltaAtRest
    /\ LocationAtRest /\ UserAtRest /\ RunAtRest

NextNormals ==
    \/ ReadNormalsCsv /\ UNCHANGED <<sfVars, clockVars, cfVars, dcVars, lrVars, uiVars, runVars>>
    \/ ExtractNormals /\ UNCHANGED <<sfVars, clockVars, cfVars, dcVars, lrVars, uiVars, runVars>>

SpecNormals == InitNormals /\ [][NextNormals]_vars

(* get_current_conditions, called once *)

InitConditions ==
    /\ StationAtRest /\ ClockAtRest /\ NormalsAtRest /\ ConditionsWorld /\ DeltaAtRest
    /\ LocationAtRest /\ UserAtRest /\ RunAtRest

NextConditions ==
    \/ PointMetadata /\ UNCHANGED <<sfVars, clockVars, nrVars, dcVars, lrVars, uiVars, runVars>>
    \/ FirstObservationStation /\ UNCHANGED <<sfVars, clockVars, nrVars, dcVars, lrVars, uiVars, runVars>>
    \/ LatestObservation /\ UNCHANGED <<sfVars, clockVars, nrVars, dcVars, lrVars, uiVars, runVars>>
    \/ ForecastAndAssemble /\ UNCHANGED <<sfVars, clockVars, nrVars, dcVars, lrVars, uiVars, runVars>>

SpecConditions == InitConditions /\ [][NextConditions]_vars

(* the deltas and their wording, by either presenter *)

InitDelta ==
    /\ StationAtRest /\ ClockAtRest /\ NormalsAtRest /\ ConditionsAtRest /\ DeltaWorld
    /\ LocationAtRest /\ UserAtRest /\ RunAtRest

NextDelta ==
    \/ CliReport /\ UNCHANGED <<sfVars, clockVars, nrVars, cfVars, lrVars, uiVars, runVars>>
    \/ WebRender /\ UNCHANGED <<sfVars, clockVars, nrVars, cfVars, lrVars, uiVars, runVars>>

SpecDelta == InitDelta /\ [][NextDelta]_vars

(* the location resolved, by either presenter *)

InitLocation ==
    /\ StationAtRest /\ ClockAtRest /\ NormalsAtRest /\ ConditionsAtRest /\ DeltaAtRest
    /\ LocationWorld /\ UserAtRest /\ RunAtRest

NextLocation ==
    \/ ReadLocation /\ UNCHANGED <<sfVars, clockVars, nrVars, cfVars, dcVars, runVars>>
    \/ CityStateToZip /\ UNCHANGED <<sfVars, clockVars, nrVars, cfVars, dcVars, runVars>>
    \/ ZipToLatLon /\ UNCHANGED <<sfVars, clockVars, nrVars, cfVars, dcVars, runVars>>

SpecLocation == InitLocation /\ [][NextLocation]_vars

(* one whole run of main() or of index() *)

InitRun == RunWorld /\ ClockWorld /\ DeltaAtRest /\ UserAtRest /\ RunAtRest

NextRun ==
    \/ ReadLocation /\ UNCHANGED <<sfVars, clockVars, nrVars, cfVars, dcVars, runVars>>
    \/ /\ CityStateToZip
       /\ calls' = Append(calls, "city_state_to_zip")
       /\ UNCHANGED <<sfVars, clockVars, nrVars, cfVars, dcVars, runPc>>
    \/ /\ ZipToLatLon
       /\ calls' = Append(calls, "zip_to_latlon")
       /\ UNCHANGED <<sfVars, clockVars, nrVars, cfVars, dcVars, runPc>>
    \/ CallStationFinder
    \/ /\ runPc = "station" /\ QueryDirectory
       /\ UNCHANGED <<clockVars, nrVars, cfVars, dcVars, lrVars, uiVars, runVars>>
    \/ /\ runPc = "station" /\ ProbeStation
       /\ UNCHANGED <<clockVars, nrVars, cfVars, dcVars, lrVars, uiVars, runVars>>
    \/ /\ runPc = "station" /\ ScanExhausted
       /\ UNCHANGED <<clockVars, nrVars, cfVars, dcVars, lrVars, uiVars, runVars>>
    \/ StationFinderDone
    \/ /\ runPc = "normals" /\ ReadNormalsCsv
       /\ UNCHANGED <<sfVars, clockVars, cfVars, dcVars, lrVars, uiVars, runVars>>
    \/ /\ runPc = "normals" /\ ExtractNormals
       /\ UNCHANGED <<sfVars, clockVars, cfVars, dcVars, lrVars, uiVars, runVars>>
    \/ NormalsReaderDone
    \/ CallConditionsFetcher
    \/ /\ runPc = "conditions" /\ PointMetadata
       /\ UNCHANGED <<sfVars, clockVars, nrVars, dcVars, lrVars, uiVars, runVars>>
    \/ /\ runPc = "conditions" /\ FirstObservationStation
       /\ UNCHANGED <<sfVars, clockVars, nrVars, dcVars, lrVars, uiVars, runVars>>
    \/ /\ runPc = "conditions" /\ LatestObservation
       /\ UNCHANGED <<sfVars, clockVars, nrVars, dcVars, lrVars, uiVars, runVars>>
    \/ /\ runPc = "conditions" /\ ForecastAndAssemble
       /\ UNCHANGED <<sfVars, clockVars, nrVars, dcVars, lrVars, uiVars, runVars>>
    \/ ConditionsFetcherDone
    \/ Report

SpecRun == InitRun /\ [][NextRun]_vars

-----------------------------------------------------------------------------
(* Claims about get_closest_station_with_normals (SpecStation) *)

\* the candidate list: what the directory returned, in the order it returned it
Candidates == ResultsOf(dirResp)

\* the candidate's probe succeeds with the DLY-TMAX-NORMAL column
Qualifies(s) == csvHost[StationCode(s.id)] = "ok"

OriginDistance(s) == Distance(origin[1], origin[2], s)

\* the probes issued so far, as the station codes probed, oldest first
ProbedCodes ==
    LET IsProbe(r) == r.kind = "probe"
        probes == SelectSeq(requests, IsProbe)
    IN  [i \in 1..Len(probes) |-> probes[i].code]

TimesProbed(s) ==
    Cardinality({ i \in 1..Len(ProbedCodes) : ProbedCodes[i] = StationCode(s.id) })

CandidateOfCode(code) ==
    CHOOSE s \in { Candidates[i] : i \in 1..Len(Candidates) } : StationCode(s.id) = code

StationDone == sfPc \in {"returned", "raised"}

\* C1: whatever the list and the probe outcomes, the station returned is a
\* candidate of the list whose probe succeeds with the column, no qualifying
\* candidate is closer to the origin, and every closer candidate fails or lacks
\* the column and was probed and passed over; and when the directory answered
\* and some candidate qualifies, the call does return a station.
C1_NearestQualifying ==
    /\ sfPc = "returned" =>
         \E i \in 1..Len(Candidates) :
            LET s == Candidates[i]
            IN  /\ sfResult = Some(<<s.id, s.name, s.latitude, s.longitude>>)
                /\ Qualifies(s)
                /\ \A j \in 1..Len(Candidates) :
                      /\ Qualifies(Candidates[j])
                           => OriginDistance(s) <= OriginDistance(Candidates[j])
                      /\ OriginDistance(Candidates[j]) < OriginDistance(s)
                           => ~Qualifies(Candidates[j]) /\ TimesProbed(Candidates[j]) = 1
    /\ (StationDone /\ dirResp.status = 200
          /\ \E j \in 1..Len(Candidates) : Qualifies(Candidates[j]))
         => sfPc = "returned"

\* C1 witness: a station was returned that is not the first of the directory's
\* list, after a closer candidate whose read failed and a closer one without
\* the column were passed over.
C1_Witness ==
    /\ sfPc = "returned"
    /\ sfResult.val[1] # Candidates[1].id
    /\ \E i, j \in 1..Len(Candidates) :
          /\ csvHost[i] = "fail" /\ csvHost[j] = "nocol"
          /\ OriginDistance(Candidates[i]) < OriginDistance(Candidates[j])
          /\ \E k \in 1..Len(Candidates) :
                /\ sfResult.val[1] = Candidates[k].id
                /\ OriginDistance(Candidates[j]) < OriginDistance(Candidates[k])

\* C2: in one call the first request, and only the first, is the directory
\* query; the probes that follow go by ascending distance from the origin, no
\* candidate is probed twice, no probe follows a probe that succeeded with the
\* column, and there are at most as many probes as candidates.
C2_ProbeOrder ==
    /\ sfPc = "start" => requests = <<>>
    /\ sfPc # "start" =>
         /\ Len(requests) >= 1
         /\ requests[1] = DirectoryRequest
         /\ \A i \in 2..Len(requests) : requests[i].kind = "probe"
    /\ \A i, j \in 1..Len(ProbedCodes) :
          i < j => /\ ProbedCodes[i] # ProbedCodes[j]
                   /\ OriginDistance(CandidateOfCode(ProbedCodes[i]))
                        <= OriginDistance(CandidateOfCode(ProbedCodes[j]))
    /\ \A i \in 1..(Len(ProbedCodes) - 1) : csvHost[ProbedCodes[i]] # "ok"
    /\ Len(ProbedCodes) <= Len(Candidates)
    /\ sfPc = "returned" => csvHost[ProbedCodes[Len(ProbedCodes)]] = "ok"

\* C2 witness: three probes were issued, the last one succeeded, and the
\* directory had listed the candidates in another order than they were probed.
C2_Witness ==
    /\ sfPc = "returned"
    /\ Len(requests) = 4
    /\ ProbedCodes # <<1, 2, 3>>

\* C3: when the directory returns candidates and none qualifies, the call never
\* returns and never ends on another error: while it scans, every turn of the
\* loop so far issued one probe, and when it raises it raises
\* NoQualifyingStation and every candidate was probed exactly once.
C3_NoQualifyingStation ==
    (/\ dirResp.status = 200
     /\ Candidates # <<>>
     /\ \A j \in 1..Len(Candidates) : ~Qualifies(Candidates[j]))
    => /\ sfPc # "returned" /\ sfResult = None
       /\ sfError \in {"none", "NoQualifyingStation"}
       /\ sfPc = "scan" =>
            /\ Len(ProbedCodes) = sfIdx - 1
            /\ sfIdx <= Len(Candidates) + 1
       /\ sfPc = "raised" =>
            /\ sfError = "NoQualifyingStation"
            /\ \A j \in 1..Len(Candidates) : TimesProbed(Candidates[j]) = 1

\* C3 witness: the call raised NoQualifyingStation over candidates of which
\* the first probed failed to load and a later one lacked the column.
C3_Witness ==
    /\ sfPc = "raised" /\ sfError = "NoQualifyingStation"
    /\ Len(ProbedCodes) >= 2
    /\ csvHost[ProbedCodes[1]] = "fail"
    /\ \E i \in 2..Len(ProbedCodes) : csvHost[ProbedCodes[i]] = "nocol"

\* C4: when the directory answers with no candidate, the call raises
\* NoStationsFound as its first step, having issued the directory query and no
\* probe, and returns no station.
C4_NoStationsFound ==
    (dirResp.status = 200 /\ Candidates = <<>>)
    => /\ sfPc \in {"start", "raised"}
       /\ sfResult = None
       /\ sfPc = "start" => ENABLED NextStation
       /\ sfPc = "raised" =>
            /\ sfError = "NoStationsFound"
            /\ requests = <<DirectoryRequest>>

\* C4 witness: the call raised NoStationsFound on an answer whose "results"
\* list is there and empty.
C4_Witness ==
    /\ sfPc = "raised" /\ sfError = "NoStationsFound"
    /\ dirResp.hasResults /\ Candidates = <<>>

-----------------------------------------------------------------------------
(* Claims about get_normals_for_today (SpecNormals) *)

\* a/b = k/10, without dividing
IsTenthOf(x, k) == x.n * 10 = k * x.d

\* the positions of the published rows whose DATE is the key of the day the
\* call is made on
RowsOfToday ==
    { i \in 1..Len(csvFile.rows) : csvFile.rows[i].DATE = MonthDayKey(LocalNow.date) }

\* C5: the dict returned holds, for the row it was read from (the first row of
\* today), high_avg = max_normal/10, high_sd = (max_normal + max_stddev)/10,
\* low_avg = min_normal/10 and low_sd = (min_normal - min_stddev)/10; and when
\* both deviations of the row are non-negative, low_sd <= low_avg and
\* high_avg <= high_sd.
C5_NormalsArithmetic ==
    nrPc = "returned" =>
      \E i \in RowsOfToday :
         LET row == csvFile.rows[i]
             out == nrResult.val
         IN  /\ \A j \in RowsOfToday : i <= j
             /\ IsTenthOf(out.high_avg, row.TMAX_NORMAL)
             /\ IsTenthOf(out.high_sd, row.TMAX_NORMAL + row.TMAX_STDDEV)
             /\ IsTenthOf(out.low_avg, row.TMIN_NORMAL)
             /\ IsTenthOf(out.low_sd, row.TMIN_NORMAL - row.TMIN_STDDEV)
             /\ (row.TMAX_STDDEV >= 0 /\ row.TMIN_STDDEV >= 0)
                  => /\ out.low_sd.n * out.low_avg.d <= out.low_avg.n * out.low_sd.d
                     /\ out.high_avg.n * out.high_sd.d <= out.high_sd.n * out.high_avg.d

\* C5 witness: normals were returned from a row with positive deviations whose
\* values are no whole degrees (33.3 and 10.1, bounds 40.0 and 6.8).
C5_Witness ==
    /\ nrPc = "returned"
    /\ nrResult.val = [high_avg |-> Rat(333, 10), high_sd |-> Rat(40, 1),
                       low_avg |-> Rat(101, 10), low_sd |-> Rat(68, 10)]

\* C6: when the CSV was read and holds no row for today's month-day key, the
\* call returns nothing and, once over, has raised NormalsRowMissing; and
\* whatever is returned are the values of a row whose DATE is today's key.
C6_NoRowForToday ==
    /\ (csvFile.ok /\ RowsOfToday = {}) =>
          /\ nrPc # "returned" /\ nrResult = None
          /\ nrPc = "raised" => nrError = "NormalsRowMissing"
          /\ nrError \in {"none", "NormalsRowMissing"}
    /\ nrPc = "returned" =>
          \E i \in RowsOfToday :
             /\ IsTenthOf(nrResult.val.high_avg, csvFile.rows[i].TMAX_NORMAL)
             /\ IsTenthOf(nrResult.val.low_avg, csvFile.rows[i].TMIN_NORMAL)

\* C6 witness: the call raised NormalsRowMissing on a CSV that holds rows, all
\* of other days.
C6_Witness ==
    /\ nrPc = "raised" /\ nrError = "NormalsRowMissing"
    /\ Len(df) >= 2
    /\ RowsOfToday = {}

-----------------------------------------------------------------------------
(* Claims about get_current_conditions (SpecConditions) *)

\* c degrees C in degrees F, as one fraction: (9c + 160)/5
InFahrenheit(c) == Rat(9 * c.n + 160 * c.d, 5 * c.d)

\* the positions of the forecast periods the call retains
Retained ==
    { i \in 1..Len(wxPeriods) : wxPeriods[i] \in
        { cfLocals.val.forecast_periods_today[k] :
            k \in 1..Len(cfLocals.val.forecast_periods_today) } }

ForecastHigh == FromInt(cfLocals.val.f_high.val)

ForecastLow == FromInt(cfLocals.val.f_low.val)

\* the 24-hour maximum in degrees F, or the current temperature in degrees F
\* when the maximum is null; defined when one of the two is reported
Max24Known == wxObs.maxTemperatureLast24Hours.has \/ wxObs.temperature.has

Max24F ==
    IF wxObs.maxTemperatureLast24Hours.has
      THEN InFahrenheit(wxObs.maxTemperatureLast24Hours.val)
      ELSE InFahrenheit(wxObs.temperature.val)

Min24Known == wxObs.minTemperatureLast24Hours.has \/ wxObs.temperature.has

Min24F ==
    IF wxObs.minTemperatureLast24Hours.has
      THEN InFahrenheit(wxObs.minTemperatureLast24Hours.val)
      ELSE InFahrenheit(wxObs.temperature.val)

\* m is the greater of a and b
IsMaxOf(m, a, b) == m \in {a, b} /\ a.n * m.d <= m.n * a.d /\ b.n * m.d <= m.n * b.d

\* m is the lesser of a and b
IsMinOf(m, a, b) == m \in {a, b} /\ m.n * a.d <= a.n * m.d /\ m.n * b.d <= b.n * m.d

\* C7 as stated: for every observation, a result has
\* high_F = max(forecast_high, max24_F) and low_F = min(forecast_low, min24_F),
\* max24_F and min24_F being the converted extreme or else the converted
\* current temperature (so one of the two is there to convert).
C7_AsStated ==
    cfPc = "returned" =>
       /\ Max24Known /\ IsMaxOf(cfResult.val.highlow[1], ForecastHigh, Max24F)
       /\ Min24Known /\ IsMinOf(cfResult.val.highlow[2], ForecastLow, Min24F)

\* C7, amended: as stated whenever the extreme or the current temperature is
\* reported; when both are null, high_F = forecast_high (resp. low_F =
\* forecast_low).
C7_HighLow ==
    cfPc = "returned" =>
       /\ IF Max24Known
            THEN IsMaxOf(cfResult.val.highlow[1], ForecastHigh, Max24F)
            ELSE cfResult.val.highlow[1] = ForecastHigh
       /\ IF Min24Known
            THEN IsMinOf(cfResult.val.highlow[2], ForecastLow, Min24F)
            ELSE cfResult.val.highlow[2] = ForecastLow

\* C7 witness: the 24-hour maximum is null, the current temperature (23.9 C,
\* 75.02 F) stands in for it and exceeds the forecast high, while the 24-hour
\* minimum (10 C, 50 F) is below a forecast low of 70.
C7_Witness ==
    /\ cfPc = "returned"
    /\ ~wxObs.maxTemperatureLast24Hours.has
    /\ wxObs.temperature = Some(Rat(239, 10))
    /\ wxObs.minTemperatureLast24Hours = Some(FromInt(10))
    /\ cfLocals.val.f_low = Some(70)
    /\ cfResult.val.highlow = <<Rat(3751, 50), FromInt(50)>>

\* C8: forecast_high and forecast_low are the greatest and the least
\* temperature of the retained periods, all of today and no other; and when the
\* provider answers every request and no period is retained, the call returns
\* nothing and ends raising NoForecastForToday.
C8_ForecastOfTodayOnly ==
    /\ cfPc = "returned" =>
          /\ Retained # {}
          /\ \A i \in Retained : wxPeriods[i].startTime.date = today
          /\ \A i \in Retained :
                /\ wxPeriods[i].temperature <= cfLocals.val.f_high.val
                /\ wxPeriods[i].temperature >= cfLocals.val.f_low.val
          /\ \E i \in Retained : wxPeriods[i].temperature = cfLocals.val.f_high.val
          /\ \E i \in Retained : wxPeriods[i].temperature = cfLocals.val.f_low.val
    /\ (wxFault = "none"
          /\ \A i \in 1..Len(wxPeriods) : wxPeriods[i].startTime.date # today) =>
          /\ cfPc # "returned" /\ cfResult = None
          /\ cfError \in {"none", "NoForecastForToday"}
          /\ cfPc = "raised" => cfError = "NoForecastForToday"

\* C8 witness: the call raised NoForecastForToday although the provider holds
\* periods (of another day) and a current temperature.
C8_Witness ==
    /\ cfPc = "raised" /\ cfError = "NoForecastForToday"
    /\ Len(wxPeriods) >= 2
    /\ wxObs.temperature.has

\* the calendar date, in UTC, of the instant a start timestamp names
UtcDateOf(st) == Shifted(st.date, st.hour, -st.offset).date

\* C9 as stated: once the periods are filtered, a period is retained if and
\* only if the UTC calendar date of its start timestamp equals `today`.
C9_RetainedIffUtcDate ==
    cfLocals.has =>
       \A i \in 1..Len(wxPeriods) :
          (i \in Retained) <=> (UtcDateOf(wxPeriods[i].startTime) = today)

-----------------------------------------------------------------------------
(* Claims about the wording of the deltas (SpecDelta) *)

\* how a presenter must word the difference of a value and its normal
WordingFits(out, value, normal) ==
    LET num == value.n * normal.d - normal.n * value.d
        den == value.d * normal.d
    IN  /\ out.text \in {"warmer", "cooler", "no change"}
        /\ out.text = "warmer" <=> num > 0
        /\ out.text = "cooler" <=> num < 0
        /\ out.text = "no change" <=> num = 0
        \* the figure shown is |delta| to the nearest tenth
        /\ out.text # "no change" =>
              /\ 2 * (10 * Abs(num) - out.tenths * den) <= den
              /\ 2 * (out.tenths * den - 10 * Abs(num)) <= den

\* C10: for the high and for the low, on the command line and on the web page,
\* the delta is worded "warmer" with |delta| iff it is positive, "cooler" with
\* |delta| iff it is negative and "no change" iff it is zero.
C10_ThreeWayWording ==
    /\ dcPc = "cli" =>
          /\ WordingFits(cliOut.val.high, highlow[1], normals.high_avg)
          /\ WordingFits(cliOut.val.low, highlow[2], normals.low_avg)
    /\ dcPc = "web" =>
          /\ WordingFits(webOut.val.delta_high_html, highlow[1], normals.high_avg)
          /\ WordingFits(webOut.val.delta_low_html, highlow[2], normals.low_avg)

\* C10 witness: the command line words a high equal to its normal "no change"
\* and a low 0.02 F under its normal "0.0 F cooler".
C10_Witness ==
    /\ dcPc = "cli"
    /\ cliOut.val.high.text = "no change"
    /\ highlow[2] = Rat(2599, 50) /\ normals.low_avg = FromInt(52)
    /\ cliOut.val.low.text = "cooler" /\ cliOut.val.low.tenths = 0

-----------------------------------------------------------------------------
(* Claims about the one-sigma test of main() (SpecDelta) *)

\* a <= b for two fractions with positive denominators, by cross-multiplying
AtMost(a, b) == a.n * b.d <= b.n * a.d

\* C11: high_in_range is true exactly when today's high is at most
\* normals.high_sd, and low_in_range exactly when today's low is at least
\* normals.low_sd; both look at the current conditions, and a value equal to
\* its bound is in range.
C11_InRangeOfCurrent ==
    dcPc = "cli" =>
        /\ cliOut.has
        /\ cliOut.val.high_in_range \in BOOLEAN
        /\ cliOut.val.low_in_range \in BOOLEAN
        /\ cliOut.val.high_in_range <=> AtMost(highlow[1], normals.high_sd)
        /\ cliOut.val.low_in_range <=> AtMost(normals.low_sd, highlow[2])
        /\ (highlow[1] = normals.high_sd => cliOut.val.high_in_range)
        /\ (highlow[2] = normals.low_sd => cliOut.val.low_in_range)

\* the report was printed for a high equal to its upper bound and a low equal
\* to its lower bound, and both were found in range
C11_Witness ==
    /\ dcPc = "cli"
    /\ highlow[1] = normals.high_sd
    /\ highlow[2] = normals.low_sd
    /\ cliOut.val.high_in_range
    /\ cliOut.val.low_in_range

\* the four messages of main.py 97-104
RangeMessages ==
    {"both within", "high within, low below", "low within, high above", "both outside"}

\* C12: whatever the two booleans are, the report carries exactly one of the
\* four messages and it is the one of that pair: (true, true) both within;
\* (true, false) high within and low below the lower bound; (false, true) low
\* within and high above the upper bound; (false, false) both outside.
C12_MessageOfThePair ==
    dcPc = "cli" =>
        LET out == cliOut.val
            h == out.high_in_range
            l == out.low_in_range
        IN  /\ out.msg \in RangeMessages
            /\ (h /\ l) <=> out.msg = "both within"
            /\ (h /\ ~l) <=> out.msg = "high within, low below"
            /\ (~h /\ l) <=> out.msg = "low within, high above"
            /\ (~h /\ ~l) <=> out.msg = "both outside"
            /\ (out.msg = "high within, low below" => ~AtMost(normals.low_sd, highlow[2]))
            /\ (out.msg = "low within, high above" => ~AtMost(highlow[1], normals.high_sd))

\* the report was printed for a high within its bound and a low under its own
C12_Witness ==
    /\ dcPc = "cli"
    /\ cliOut.val.high_in_range
    /\ ~cliOut.val.low_in_range
    /\ cliOut.val.msg = "high within, low below"
    /\ \E other \in HighValues \X LowValues :
           RangeMessage(in_range(other, normals)[1], in_range(other, normals)[2])
               = "low within, high above"

-----------------------------------------------------------------------------
(* Claims about ties of distance in get_closest_station_with_normals        *)
(* (SpecStation)                                                            *)

\* candidates i and j, i earlier in the directory's answer, lie at exactly the
\* same distance from the origin and both qualify
TiedQualifying(i, j) ==
    /\ i < j
    /\ OriginDistance(Candidates[i]) = OriginDistance(Candidates[j])
    /\ Qualifies(Candidates[i])
    /\ Qualifies(Candidates[j])

\* C17: of candidates at exactly the same distance from the origin that all
\* qualify, only the one earliest in the directory's answer can be probed and
\* returned: a later one is never probed and never returned, and when the call
\* returns a candidate of such a group it is the earliest of the group, probed
\* once.
C17_EarliestOfTies ==
    \A i, j \in 1..Len(Candidates) :
        TiedQualifying(i, j) =>
            /\ TimesProbed(Candidates[j]) = 0
            /\ sfPc = "returned" =>
                  /\ sfResult.val[1] # Candidates[j].id
                  /\ (OriginDistance(CandidateOfCode(StationCode(sfResult.val[1])))
                         = OriginDistance(Candidates[i])
                      /\ \A h \in 1..(i - 1) : ~TiedQualifying(h, i))
                     => /\ sfResult = Some(<<Candidates[i].id, Candidates[i].name,
                                             Candidates[i].latitude, Candidates[i].longitude>>)
                        /\ TimesProbed(Candidates[i]) = 1

\* C17 witness: the call returned the earlier of two qualifying candidates that
\* lie at one distance from the origin on different points, after a closer
\* candidate was passed over; the earlier one is not the first of the answer.
C17_Witness ==
    /\ sfPc = "returned"
    /\ \E i, j \in 1..Len(Candidates) :
          /\ TiedQualifying(i, j)
          /\ i > 1
          /\ Candidates[i].longitude # Candidates[j].longitude
          /\ sfResult.val[1] = Candidates[i].id
          /\ Len(ProbedCodes) = 2

-----------------------------------------------------------------------------
(* Claims about the order of the values of get_current_conditions           *)
(* (SpecConditions)                                                         *)

\* C18: every result has low_F <= forecast_low <= forecast_high <= high_F,
\* whichever of the current temperature, the 24-hour maximum and the 24-hour
\* minimum are null; so the high reported is never below the low reported.
C18_LowBelowHigh ==
    cfPc = "returned" =>
        /\ cfResult.has
        /\ AtMost(cfResult.val.highlow[2], ForecastLow)
        /\ cfLocals.val.f_low.val <= cfLocals.val.f_high.val
        /\ AtMost(ForecastHigh, cfResult.val.highlow[1])
        /\ AtMost(cfResult.val.highlow[2], cfResult.val.highlow[1])

\* C18 witness: with the current temperature and the 24-hour minimum null and
\* a 24-hour maximum of 23.9 C, periods of 50 F and 70 F give
\* low_F = 50 = forecast_low < forecast_high = 70 < high_F = 75.02.
C18_Witness ==
    /\ cfPc = "returned"
    /\ ~wxObs.temperature.has
    /\ ~wxObs.minTemperatureLast24Hours.has
    /\ wxObs.maxTemperatureLast24Hours = Some(Rat(239, 10))
    /\ cfLocals.val.f_low = Some(50)
    /\ cfLocals.val.f_high = Some(70)
    /\ cfResult.val.highlow = <<Rat(3751, 50), FromInt(50)>>

-----------------------------------------------------------------------------
(* Claims about the location resolver (SpecLocation) *)

\* the input is no 5-digit code and does not split into two parts at commas
NotSplittable == ~IsZip(Loc) /\ Len(split(Loc, ",")) # 2

\* how a run ends when the geocoder knows no place of the city and state given
LocationNotFound == Failed("location", "Could not resolve", GivesUp(presenter))

\* C13: an input that is no 5-digit code and does not split into exactly two
\* comma-separated parts fails with an outcome of its own, distinct from the
\* one of a place the geocoder does not know, and no request is sent to the
\* geocoder for it.
C13_InvalidInputDistinct ==
    (NotSplittable /\ lrPc \notin {"start", "city"})
    => /\ lrPc = "failed"
       /\ geoRequests = <<>>
       /\ failure.has
       /\ failure # LocationNotFound

-----------------------------------------------------------------------------
(* Claims about a whole run of a presenter (SpecRun) *)

\* the run ended on an error
RunFailed == failure.has

\* the lines of the command line that show normals, conditions or deltas
ResultLines == {"normals", "temperatures", "deltas", "range message"}

\* normals, conditions or deltas have reached the user: on the command line a
\* line of theirs was printed, on the web the result page was rendered
ResultShown ==
    \/ \E i \in 1..Len(stdout) : stdout[i] \in ResultLines
    \/ cliOut.has
    \/ webOut.has

\* location, station, normals and conditions have all been obtained
AllObtained ==
    /\ lrPc = "located"
    /\ sfPc = "returned"
    /\ nrPc = "returned"
    /\ cfPc = "returned"

\* C14: in a run that ends on an error, whatever the stage, no normals, no
\* conditions and no delta have been shown to the user before the error; a
\* result is shown only once location, station, normals and conditions have
\* all been obtained.  For the command line and for the web page.
C14_NoPartialResult ==
    /\ RunFailed => ~ResultShown
    /\ ResultShown => AllObtained

\* the location resolves: a 5-digit code, or a city and a state the geocoder
\* knows, and the geocoder knows the ZIP
LocationResolves ==
    /\ IsZip(Loc) \/ (Len(split(Loc, ",")) = 2 /\ geoCity.status = 200 /\ geoCity.places # <<>>)
    /\ geoZip.status = 200 /\ geoZip.places # <<>>

\* every collaborator answers with well-formed data: the location resolves,
\* the directory lists a qualifying station, the station's CSV has the row of
\* the day asked for, weather.gov answers every request, has an observation
\* station and a forecast period of the day asked for
AllSucceed ==
    /\ LocationResolves
    /\ dirResp.status = 200
    /\ \E i \in 1..Len(Candidates) : Qualifies(Candidates[i])
    /\ csvFile.ok
    /\ \E i \in 1..Len(csvFile.rows) : csvFile.rows[i].DATE = TodayMd
    /\ wxFault = "none"
    /\ \E i \in 1..Len(wxPeriods) : PeriodDate(wxPeriods[i]) = UtcToday

\* no step is left to take
RunOver == lrPc = "failed" \/ runPc \in {"rendered", "failed"}

\* the calls of a run that resolves its location and goes through to the
\* deltas, in the order LocationResolver, StationFinder, NormalsReader,
\* ConditionsFetcher, DeltaComputer
StepsInOrder ==
    (IF IsZip(Loc) THEN <<"zip_to_latlon">> ELSE <<"city_state_to_zip", "zip_to_latlon">>)
    \o <<"get_closest_station_with_normals", "get_normals_for_today",
         "get_current_conditions", "deltas">>

IsPrefix(s, l) == Len(s) <= Len(l) /\ SubSeq(l, 1, Len(s)) = s

\* both deltas were computed and handed to the output
DeltasRendered ==
    IF presenter = "cli" THEN cliOut.has /\ dcPc = "cli" ELSE webOut.has /\ dcPc = "web"

\* C15: in a run where every collaborator call succeeds with well-formed data
\* the presenter takes the steps in the order LocationResolver, StationFinder,
\* NormalsReader, ConditionsFetcher, DeltaComputer, never fails, and ends at
\* the render step with both deltas computed.  For the command line and for
\* the web page.
C15_ReachesRender ==
    AllSucceed =>
        /\ IsPrefix(calls, StepsInOrder)
        /\ ~RunFailed
        /\ RunOver => (runPc = "rendered" /\ calls = StepsInOrder /\ DeltasRendered)

\* the presenter has taken `today` and the normals row was selected: index()
\* takes `today` before it calls the station service, main() right after the
\* normals are returned
TodayTakenAndRowSelected ==
    /\ nrPc = "returned"
    /\ runPc \in {"call conditions", "conditions", "delta", "rendered", "failed"}

\* C16: within one run the month-day key that selected the normals row is
\* the month-day of the `today` that filters the forecast periods and is
\* shown as the normals' date, whatever the machine's offset from UTC.
C16_OneToday ==
    TodayTakenAndRowSelected => TodayMd = MonthDayKey(today)

=============================================================================
